---- MODULE Spec2Model ----
(***************************************************************************)
(* Model of find-duplicate-files.py: candidate paths are submitted to a    *)
(* process pool, the completed hash results are grouped by digest, the     *)
(* groups are filtered (duplicates or --match) and reported; and of the    *)
(* glob matcher _Matcher used to select file names.                        *)
(*                                                                         *)
(* Strings that the program orders are sequences of code points; the       *)
(* characters of globs and file names are one-character strings.           *)
(***************************************************************************)
EXTENDS Integers, Sequences, FiniteSets, TLC

(***************************************************************************)
(* Bounds of the model.                                                    *)
(***************************************************************************)
MaxFiles == 3
MaxMatch == 2
MaxPatLen == 3
MaxNameLen == 2
MaxRoots == 2

(* The files that exist: "b", "d/a", "d/e/a" as sequences of code points,  *)
(* and the directories "d" and "d/e".                                      *)
Paths == {<<98>>, <<100, 47, 97>>, <<100, 47, 101, 47, 97>>}
Dirs == {<<100>>, <<100, 47, 101>>}
(* The values of --glob the pipeline is run with.                          *)
SpecGlobs == {<<"A">>, <<"!", "a">>}
(* The paths the pipeline is given as roots: "b", "d", "d/a", "d/e".       *)
RootChoices == {<<98>>, <<100>>, <<100, 47, 97>>, <<100, 47, 101>>}
(* Characters of globs, and of file names.                                 *)
PatChars == {"a", "A", "!", "*", "?", "[", "]"}
NameChars == {"a", "A", "!"}
(* Hex digests that file contents hash to.                                 *)
Digests == {"d1", "d2"}
(* Outcome of _compute_hash for a file that cannot be opened or read.      *)
IOError == "IOError"
HashAlgorithms == {"md5"}
Formats == {"txt", "json", "csv"}

(* All sequences over S of length at most n.                               *)
SeqsUpTo(S, n) == UNION {[1..k -> S] : k \in 0..n}

Range(s) == {s[i] : i \in 1..Len(s)}

VARIABLES
    pc,             \* position of the main flow
    disk,           \* path -> digest of the file's content, or IOError
    todo,           \* candidate paths the collector has still to yield
    quiet,          \* --quiet
    show_progress,  \* --progress/--no-progress, as main holds it
    hash_algorithm, \* --hash
    match_digests,  \* --match, the tuple of digests
    output_format,  \* --format, once read
    futures,        \* the list of futures: [path, state, result]
    consumed,       \* indices of the futures as_completed has yielded
    tqdm_total,     \* <<total>> once the progress bar wraps the iterator
    hashes,         \* the dict of _file_hashes, in insertion order
    file_hashes,    \* the dict main holds, in insertion order
    warned,         \* "Warning: no files passed" written to stderr
    stdout,         \* what has been written to standard output
    rendered,       \* the rendering functions that have run
    exit_status,    \* <<code>> once the process has exited
    roots,          \* set(paths) of the paths given on the command line
    recursive,      \* --recursive
    glob_given,     \* --glob was passed (glob is not None)
    glob,           \* _Matcher: the glob the matcher is built from
    case_insensitive, \* _Matcher: --glob-case-insensitive
    matcher,        \* _Matcher: the constructed object, <<>> before
    filename,       \* _Matcher: the name the matcher was called with
    accepted,       \* _Matcher: <<result>> of the call
    wd,             \* withdecorator.py: the caller, the with statement and f
    pl,             \* prefix-logger.py: handlers, format attributes, frames
    cf              \* concurrent-futures-logging.py: pool, queue and main

pipeVars == <<pc, disk, todo, quiet, show_progress, hash_algorithm,
              match_digests, output_format, futures, consumed, tqdm_total,
              hashes, file_hashes, warned, stdout, rendered, exit_status>>
globVars == <<glob, case_insensitive, matcher, filename, accepted>>
collectVars == <<roots, recursive, glob_given>>
dupVars == <<pipeVars, collectVars, globVars>>
scriptVars == <<wd, pl, cf>>
otherVars == <<collectVars, globVars, scriptVars>>
vars == <<pipeVars, otherVars>>

(***************************************************************************)
(* Strings and dicts.                                                      *)
(***************************************************************************)
(* Python's str "<": lexicographic on code points.                         *)
RECURSIVE StrLess(_, _)
StrLess(a, b) ==
    IF b = <<>> THEN FALSE
    ELSE IF a = <<>> THEN TRUE
    ELSE IF a[1] # b[1] THEN a[1] < b[1]
    ELSE StrLess(Tail(a), Tail(b))

(* Insert x into the sorted list s, after the elements not greater.        *)
RECURSIVE InsertSorted(_, _)
InsertSorted(x, s) ==
    IF s = <<>> THEN <<x>>
    ELSE IF StrLess(x, Head(s)) THEN <<x>> \o s
    ELSE <<Head(s)>> \o InsertSorted(x, Tail(s))

(* As Sorted, but the list is left in the order of arrival.               *)
SortedNot(s) == s

(* sorted(paths)                                                           *)
RECURSIVE Sorted(_)
Sorted(s) ==
    IF s = <<>> THEN <<>>
    ELSE InsertSorted(s[Len(s)], Sorted(SubSeq(s, 1, Len(s) - 1)))

(* A dict is the sequence of its items [digest, paths] in insertion order. *)
DictKeys(d) == {d[i].digest : i \in 1..Len(d)}

DictGet(d, k) == (CHOOSE i \in 1..Len(d) : d[i].digest = k)

(* As SetDefaultAppend, but a new group is opened for every result.        *)
SetDefaultAppendAlwaysNew(d, digest, path) ==
    Append(d, [digest |-> digest, paths |-> <<path>>])

(* As SetDefaultAppend, but a known digest's list is replaced.             *)
SetDefaultAppendOverwrite(d, digest, path) ==
    IF digest \in DictKeys(d)
    THEN [d EXCEPT ![DictGet(d, digest)].paths = <<path>>]
    ELSE Append(d, [digest |-> digest, paths |-> <<path>>])

(* As SetDefaultAppend, but a new key starts with an empty list.           *)
SetDefaultAppendEmptyFirst(d, digest, path) ==
    IF digest \in DictKeys(d)
    THEN [d EXCEPT ![DictGet(d, digest)].paths = Append(@, path)]
    ELSE Append(d, [digest |-> digest, paths |-> <<>>])

(* hashes.setdefault(digest, []).append(path)                              *)
SetDefaultAppend(d, digest, path) ==
    IF digest \in DictKeys(d)
    THEN [d EXCEPT ![DictGet(d, digest)].paths = Append(@, path)]
    ELSE Append(d, [digest |-> digest, paths |-> <<path>>])

(* {digest: sorted(paths) for digest, paths in hashes.items()}             *)
SortedGroups(d) ==
    [i \in 1..Len(d) |-> [digest |-> d[i].digest, paths |-> Sorted(d[i].paths)]]

(* _compute_hash: the digest of the file's content, or the error raised.   *)
ComputeHash(path) == disk[path]

(***************************************************************************)
(* The glob matcher.                                                       *)
(***************************************************************************)
(* str.lower() on a character, and on a string.                            *)
LowerChar(c) == IF c = "A" THEN "a" ELSE c

Lower(s) == [i \in 1..Len(s) |-> LowerChar(s[i])]

(* fnmatch.translate, for pat[1] = "[": the index of the "]" that closes   *)
(* the character class, or 0 when there is none and "[" is literal.        *)
RECURSIVE ScanClass(_, _)
ScanClass(pat, j) ==
    IF j > Len(pat) THEN 0
    ELSE IF pat[j] = "]" THEN j
    ELSE ScanClass(pat, j + 1)

ClassEnd(pat) ==
    LET j1 == IF 2 <= Len(pat) /\ pat[2] = "!" THEN 3 ELSE 2
        j2 == IF j1 <= Len(pat) /\ pat[j1] = "]" THEN j1 + 1 ELSE j1
    IN  ScanClass(pat, j2)

(* Does the character class [stuff] contain c; a leading "!" complements.  *)
InClass(c, stuff) ==
    IF stuff[1] = "!"
    THEN c \notin Range(Tail(stuff))
    ELSE c \in Range(stuff)

(* fnmatch.fnmatch(name, pat) where os.path.normcase is the identity       *)
(* (POSIX): the whole name matches the pattern, "*" any string, "?" any    *)
(* character, "[seq]" any character of seq, "[!seq]" any character not in  *)
(* seq.                                                                    *)
RECURSIVE Fnmatch(_, _)
Fnmatch(name, pat) ==
    IF pat = <<>> THEN name = <<>>
    ELSE IF Head(pat) = "*"
    THEN \E k \in 0..Len(name) :
            Fnmatch(SubSeq(name, k + 1, Len(name)), Tail(pat))
    ELSE IF name = <<>> THEN FALSE
    ELSE IF Head(pat) = "?" THEN Fnmatch(Tail(name), Tail(pat))
    ELSE IF Head(pat) = "[" /\ ClassEnd(pat) # 0
    THEN /\ InClass(Head(name), SubSeq(pat, 2, ClassEnd(pat) - 1))
         /\ Fnmatch(Tail(name), SubSeq(pat, ClassEnd(pat) + 1, Len(pat)))
    ELSE Head(name) = Head(pat) /\ Fnmatch(Tail(name), Tail(pat))

(* _Matcher.__init__: strip one leading "!", lowercase the glob when       *)
(* case_insensitive.                                                       *)
MatcherInit(g, ci) ==
    LET negate == g # <<>> /\ Head(g) = "!"
        stripped == IF negate THEN Tail(g) ELSE g
    IN  [negate |-> negate, glob |-> IF ci THEN Lower(stripped) ELSE stripped]

(* self._name_matches(name): in both branches fnmatch of the name as       *)
(* given against the stored glob.                                          *)
NameMatches(m, name) == Fnmatch(name, m.glob)

(* As MatcherCall, but the negation is not applied.                        *)
MatcherCallNoNegate(m, name) == NameMatches(m, name)

(* _Matcher.__call__                                                       *)
MatcherCall(m, name) == IF NameMatches(m, name) THEN ~m.negate ELSE m.negate

(***************************************************************************)
(* The path collector.                                                     *)
(***************************************************************************)
(* The character of a code point.                                          *)
Chr(c) ==
    CASE c = 47 -> "/"
      [] c = 97 -> "a"
      [] c = 98 -> "b"
      [] c = 100 -> "d"
      [] c = 101 -> "e"

(* The index of the last "/" of the path, 0 if it has none.                *)
LastSlash(p) ==
    IF \E i \in 1..Len(p) : p[i] = 47
    THEN CHOOSE i \in 1..Len(p) :
            p[i] = 47 /\ \A j \in (i + 1)..Len(p) : p[j] # 47
    ELSE 0

(* path.name, as the characters the matcher is given.                      *)
Name(p) == [i \in 1..(Len(p) - LastSlash(p)) |-> Chr(p[LastSlash(p) + i])]

(* The directory that holds p; <<>> is the working directory.              *)
Parent(p) == SubSeq(p, 1, LastSlash(p) - 1)

(* The files and the directories directly in a directory.                  *)
FilesIn(dir) == {f \in Paths : Parent(f) = dir}

SubdirsOf(dir) == {s \in Dirs : Parent(s) = dir}

(* The orders in which the elements of a set can be met.                   *)
Perms(S) ==
    {s \in [1..Cardinality(S) -> S] :
        \A i, j \in 1..Cardinality(S) : s[i] = s[j] => i = j}

(* The concatenations of one sequence of each set of alts, in order.       *)
RECURSIVE ConcatChoices(_)
ConcatChoices(alts) ==
    IF alts = <<>> THEN {<<>>}
    ELSE {h \o t : h \in Head(alts), t \in ConcatChoices(Tail(alts))}

(* path.walk(): top down, the files of a directory in the order the file   *)
(* system lists them, then the walk of each of its subdirectories.         *)
RECURSIVE WalkSeqs(_)
WalkSeqs(dir) ==
    UNION {ConcatChoices(<<{fs}>> \o [i \in 1..Len(ds) |-> WalkSeqs(ds[i])]) :
              fs \in Perms(FilesIn(dir)), ds \in Perms(SubdirsOf(dir))}

(* filename_match: _always_match without a glob, else the _Matcher.        *)
FilenameMatch(given, g, ci, name) ==
    IF given THEN MatcherCall(MatcherInit(g, ci), name) ELSE TRUE

(* As RootYield, but a directory is walked without --recursive too.        *)
RootYieldAlwaysWalk(root, rec, given, g, ci) ==
    IF root \in Paths
    THEN {IF FilenameMatch(given, g, ci, Name(root)) THEN <<root>> ELSE <<>>}
    ELSE IF root \in Dirs
    THEN {SelectSeq(w, LAMBDA f : FilenameMatch(given, g, ci, Name(f))) :
              w \in WalkSeqs(root)}
    ELSE {<<>>}

(* What one root contributes: the file if its name matches; the files      *)
(* beneath a directory, when recursive, whose names match; else nothing.   *)
RootYield(root, rec, given, g, ci) ==
    IF root \in Paths
    THEN {IF FilenameMatch(given, g, ci, Name(root)) THEN <<root>> ELSE <<>>}
    ELSE IF rec /\ root \in Dirs
    THEN {SelectSeq(w, LAMBDA f : FilenameMatch(given, g, ci, Name(f))) :
              w \in WalkSeqs(root)}
    ELSE {<<>>}

(* _collect_file_paths: the sequences the generator can yield; the roots   *)
(* rs = set(paths) are visited in the iteration order of the set.          *)
CollectSeqs(rs, rec, given, g, ci) ==
    UNION {ConcatChoices([i \in 1..Len(order) |->
                             RootYield(order[i], rec, given, g, ci)]) :
              order \in Perms(rs)}

(***************************************************************************)
(* The pipeline.                                                           *)
(***************************************************************************)
(* The files on disk, the roots and the options of the collector, and the  *)
(* sequence of candidates the collector will yield for them, are fixed     *)
(* before main runs.  An option of main takes its value in the step that   *)
(* first reads it (quiet and show_progress in MainStart, match_digests in  *)
(* Filter, output_format in Render) and holds its default until then.      *)
(* withdecorator.py is not running.                                        *)
WdIdle ==
    [pc |-> "off", cm_args |-> <<>>, cms |-> <<>>, args |-> <<>>,
     context |-> <<>>, f_got |-> <<>>, f_out |-> <<>>, received |-> <<>>,
     returns |-> 0]

(* prefix-logger.py is not running.                                        *)
PlIdle ==
    [on |-> FALSE, handlers |-> <<>>,
     fmt |-> [f \in {"F1", "F2"} |-> [kind |-> "orig", of |-> f, frame |-> 0]],
     frames |-> <<>>, out |-> <<>>, left |-> "-"]

(* concurrent-futures-logging.py is not running.                           *)
CfIdle ==
    [on |-> FALSE, n |-> 0, workers |-> 0, as_completed |-> FALSE,
     rpc |-> "off", mpc |-> "off", fs |-> <<>>, st |-> <<>>,
     completed |-> <<>>, first |-> {}, yielded |-> <<>>, queue |-> <<>>,
     num |-> 0, handled |-> 0, delivered |-> <<>>]

Init ==
    /\ pc = "main"
    /\ disk \in [Paths -> Digests \cup {IOError}]
    /\ \E paths \in SeqsUpTo(RootChoices, MaxRoots) \ {<<>>} :
          roots = Range(paths)
    /\ recursive \in BOOLEAN
    /\ glob_given \in BOOLEAN
    /\ glob \in IF glob_given THEN SpecGlobs ELSE {<<>>}
    /\ case_insensitive \in IF glob_given THEN BOOLEAN ELSE {FALSE}
    /\ todo \in CollectSeqs(roots, recursive, glob_given, glob,
                             case_insensitive)
    /\ Len(todo) <= MaxFiles
    /\ quiet = FALSE
    /\ show_progress = TRUE
    /\ hash_algorithm \in HashAlgorithms
    /\ match_digests = <<>>
    /\ output_format = "txt"
    /\ futures = <<>>
    /\ consumed = {}
    /\ tqdm_total = <<>>
    /\ hashes = <<>>
    /\ file_hashes = <<>>
    /\ warned = FALSE
    /\ stdout = <<>>
    /\ rendered = {}
    /\ exit_status = <<>>
    /\ matcher = <<>>
    /\ filename = <<>>
    /\ accepted = <<>>
    /\ wd = WdIdle
    /\ pl = PlIdle
    /\ cf = CfIdle

(* As MainStart, but quiet leaves show_progress as it was passed.          *)
MainStartKeepProgress ==
    /\ pc = "main"
    /\ \E q \in BOOLEAN, sp \in BOOLEAN :
        /\ quiet' = q
        /\ show_progress' = sp
    /\ pc' = "submit"
    /\ UNCHANGED <<disk, todo, hash_algorithm, match_digests, output_format,
                   futures, consumed, tqdm_total, hashes, file_hashes, warned,
                   stdout, rendered, exit_status, otherVars>>

(* main is called with its options; quiet switches the progress bar off.   *)
MainStart ==
    /\ pc = "main"
    /\ \E q \in BOOLEAN, sp \in BOOLEAN :
        /\ quiet' = q
        /\ show_progress' = IF q THEN FALSE ELSE sp
    /\ pc' = "submit"
    /\ UNCHANGED <<disk, todo, hash_algorithm, match_digests, output_format,
                   futures, consumed, tqdm_total, hashes, file_hashes, warned,
                   stdout, rendered, exit_status, otherVars>>

(* pool.submit(_compute_hash, str(path), hash_algorithm) for the next path *)
Submit ==
    /\ pc = "submit"
    /\ todo # <<>>
    /\ futures' = Append(futures, [path |-> Head(todo), state |-> "pending",
                                   result |-> "none"])
    /\ todo' = Tail(todo)
    /\ UNCHANGED <<pc, disk, quiet, show_progress, hash_algorithm,
                   match_digests, output_format, consumed, tqdm_total, hashes,
                   file_hashes, warned, stdout, rendered, exit_status,
                   otherVars>>

(* A worker process finishes _compute_hash for future i.                   *)
Complete(i) ==
    /\ i \in 1..Len(futures)
    /\ futures[i].state = "pending"
    /\ futures' = [futures EXCEPT ![i].state = "done",
                                  ![i].result = ComputeHash(futures[i].path)]
    /\ UNCHANGED <<pc, disk, todo, quiet, show_progress, hash_algorithm,
                   match_digests, output_format, consumed, tqdm_total, hashes,
                   file_hashes, warned, stdout, rendered, exit_status,
                   otherVars>>

(* As NoFiles, but nothing is written to stderr.                          *)
NoFilesSilent ==
    /\ pc = "submit"
    /\ todo = <<>>
    /\ futures = <<>>
    /\ warned' = FALSE
    /\ file_hashes' = <<>>
    /\ pc' = "filter"
    /\ UNCHANGED <<disk, todo, quiet, show_progress, hash_algorithm,
                   match_digests, output_format, futures, consumed, tqdm_total,
                   hashes, stdout, rendered, exit_status, otherVars>>

(* if not futures: warn and return {}                                      *)
NoFiles ==
    /\ pc = "submit"
    /\ todo = <<>>
    /\ futures = <<>>
    /\ warned' = TRUE
    /\ file_hashes' = <<>>
    /\ pc' = "filter"
    /\ UNCHANGED <<disk, todo, quiet, show_progress, hash_algorithm,
                   match_digests, output_format, futures, consumed, tqdm_total,
                   hashes, stdout, rendered, exit_status, otherVars>>

(* As StartAggregate, but without waiting for the collector to run dry.   *)
StartAggregateEarly ==
    /\ pc = "submit"
    /\ futures # <<>>
    /\ tqdm_total' = IF show_progress THEN <<Len(futures)>> ELSE <<>>
    /\ hashes' = <<>>
    /\ pc' = "aggregate"
    /\ UNCHANGED <<disk, todo, quiet, show_progress, hash_algorithm,
                   match_digests, output_format, futures, consumed,
                   file_hashes, warned, stdout, rendered, exit_status,
                   otherVars>>

(* as_completed(futures), wrapped in tqdm when show_progress; hashes = {}  *)
StartAggregate ==
    /\ pc = "submit"
    /\ todo = <<>>
    /\ futures # <<>>
    /\ tqdm_total' = IF show_progress THEN <<Len(futures)>> ELSE <<>>
    /\ hashes' = <<>>
    /\ pc' = "aggregate"
    /\ UNCHANGED <<disk, todo, quiet, show_progress, hash_algorithm,
                   match_digests, output_format, futures, consumed,
                   file_hashes, warned, stdout, rendered, exit_status,
                   otherVars>>

(* One turn of the loop: as_completed yields the finished future i;        *)
(* future.result() returns its _HashResult or raises its exception.        *)
Consume(i) ==
    /\ pc = "aggregate"
    /\ i \in 1..Len(futures)
    /\ i \notin consumed
    /\ futures[i].state = "done"
    /\ consumed' = consumed \cup {i}
    /\ IF futures[i].result = IOError
       THEN /\ pc' = "raised"
            /\ UNCHANGED hashes
       ELSE /\ hashes' = SetDefaultAppend(hashes, futures[i].result,
                                          futures[i].path)
            /\ UNCHANGED pc
    /\ UNCHANGED <<disk, todo, quiet, show_progress, hash_algorithm,
                   match_digests, output_format, futures, tqdm_total,
                   file_hashes, warned, stdout, rendered, exit_status,
                   otherVars>>

(* The loop is exhausted: return the groups with their paths sorted.       *)
Return ==
    /\ pc = "aggregate"
    /\ consumed = 1..Len(futures)
    /\ file_hashes' = SortedGroups(hashes)
    /\ pc' = "filter"
    /\ UNCHANGED <<disk, todo, quiet, show_progress, hash_algorithm,
                   match_digests, output_format, futures, consumed, tqdm_total,
                   hashes, warned, stdout, rendered, exit_status, otherVars>>

(* As FilterGroups, but duplicates mode keeps every non-empty group.       *)
FilterGroupsKeepSingles(d, digests) ==
    IF digests # <<>>
    THEN SelectSeq(d, LAMBDA item : item.digest \in Range(digests))
    ELSE SelectSeq(d, LAMBDA item : Len(item.paths) > 0)

(* As FilterGroups, but match mode also drops the groups of one path.      *)
FilterGroupsMatchLarge(d, digests) ==
    IF digests # <<>>
    THEN SelectSeq(d, LAMBDA item : /\ item.digest \in Range(digests)
                                    /\ Len(item.paths) > 1)
    ELSE SelectSeq(d, LAMBDA item : Len(item.paths) > 1)

(* The exception of future.result() leaves _file_hashes; the with block of *)
(* the pool waits for the submitted work; the exception leaves main and    *)
(* the module unhandled, and the interpreter exits with status 1.          *)
Unhandled ==
    /\ pc = "raised"
    /\ \A i \in 1..Len(futures) : futures[i].state = "done"
    /\ exit_status' = <<1>>
    /\ pc' = "crashed"
    /\ UNCHANGED <<disk, todo, quiet, show_progress, hash_algorithm,
                   match_digests, output_format, futures, consumed, tqdm_total,
                   hashes, file_hashes, warned, stdout, rendered, otherVars>>

(* The retained mapping: groups of a --match digest, or groups of size > 1 *)
FilterGroups(d, digests) ==
    IF digests # <<>>
    THEN SelectSeq(d, LAMBDA item : item.digest \in Range(digests))
    ELSE SelectSeq(d, LAMBDA item : Len(item.paths) > 1)

(* main filters the mapping _file_hashes returned.                         *)
Filter ==
    /\ pc = "filter"
    /\ \E m \in SeqsUpTo(Digests, MaxMatch) :
        /\ match_digests' = m
        /\ file_hashes' = FilterGroups(file_hashes, m)
    /\ pc' = "report"
    /\ UNCHANGED <<disk, todo, quiet, show_progress, hash_algorithm,
                   output_format, futures, consumed, tqdm_total, hashes,
                   warned, stdout, rendered, exit_status, otherVars>>

(* if quiet: sys.exit(0 if file_hashes else 1)                             *)
QuietExit ==
    /\ pc = "report"
    /\ quiet
    /\ exit_status' = <<IF file_hashes # <<>> THEN 0 ELSE 1>>
    /\ pc' = "exited"
    /\ UNCHANGED <<disk, todo, quiet, show_progress, hash_algorithm,
                   match_digests, output_format, futures, consumed, tqdm_total,
                   hashes, file_hashes, warned, stdout, rendered, otherVars>>

(* The rows <<digest, path>> of one group.                                 *)
GroupRows(item) == [i \in 1..Len(item.paths) |-> <<item.digest, item.paths[i]>>]

(* _echo_matched_digests: one line digest:path per path of each group.     *)
RECURSIVE EchoMatchedDigests(_)
EchoMatchedDigests(d) ==
    IF d = <<>> THEN <<>>
    ELSE GroupRows(Head(d)) \o EchoMatchedDigests(Tail(d))

(* _echo_duplicate_files: per group a header line and the paths.           *)
RECURSIVE EchoDuplicateFiles(_, _)
EchoDuplicateFiles(d, algorithm) ==
    IF d = <<>> THEN <<>>
    ELSE <<<<Len(Head(d).paths), algorithm, Head(d).digest>>>>
         \o <<Head(d).paths>>
         \o EchoDuplicateFiles(Tail(d), algorithm)

(* json.dumps(file_hashes, indent=2): the members in insertion order.      *)
JsonDumps(d) == [i \in 1..Len(d) |-> <<d[i].digest, d[i].paths>>]

(* The data rows of _write_csv.                                            *)
RECURSIVE CsvRows(_)
CsvRows(d) ==
    IF d = <<>> THEN <<>>
    ELSE GroupRows(Head(d)) \o CsvRows(Tail(d))

(* _write_csv: the header row, then a row per path of each group.          *)
WriteCsv(d, algorithm) == <<<<algorithm, "path">>>> \o CsvRows(d)

(* What main writes to stdout for a format, and the function that does it. *)
RenderOutput(format, d, digests, algorithm) ==
    IF format = "txt"
    THEN IF digests # <<>>
         THEN [by |-> "_echo_matched_digests", out |-> EchoMatchedDigests(d)]
         ELSE [by |-> "_echo_duplicate_files",
               out |-> EchoDuplicateFiles(d, algorithm)]
    ELSE IF format = "json"
    THEN [by |-> "json.dumps", out |-> JsonDumps(d)]
    ELSE [by |-> "_write_csv", out |-> WriteCsv(d, algorithm)]

(* Not quiet: render file_hashes in the output format.                     *)
Render ==
    /\ pc = "report"
    /\ ~quiet
    /\ \E f \in Formats :
        /\ output_format' = f
        /\ stdout' = RenderOutput(f, file_hashes, match_digests,
                                  hash_algorithm).out
        /\ rendered' = rendered \cup
              {RenderOutput(f, file_hashes, match_digests, hash_algorithm).by}
    /\ pc' = "rendered"
    /\ UNCHANGED <<disk, todo, quiet, show_progress, hash_algorithm,
                   match_digests, futures, consumed, tqdm_total, hashes,
                   file_hashes, warned, exit_status, otherVars>>

(* As FinalExitCode, but an empty mapping fails in duplicates mode too.    *)
FinalExitCodeAnyEmpty(digests, d) == IF d = <<>> THEN 1 ELSE 0

(* The exit code main ends with after rendering.                           *)
FinalExitCode(digests, d) == IF digests # <<>> /\ d = <<>> THEN 1 ELSE 0

(* if match_digests and not file_hashes: sys.exit(1); else main returns.   *)
Finish ==
    /\ pc = "rendered"
    /\ exit_status' = <<FinalExitCode(match_digests, file_hashes)>>
    /\ pc' = "exited"
    /\ UNCHANGED <<disk, todo, quiet, show_progress, hash_algorithm,
                   match_digests, output_format, futures, consumed, tqdm_total,
                   hashes, file_hashes, warned, stdout, rendered, otherVars>>

Next ==
    \/ MainStart
    \/ Submit
    \/ \E i \in 1..MaxFiles : Complete(i)
    \/ NoFiles
    \/ StartAggregate
    \/ \E i \in 1..MaxFiles : Consume(i)
    \/ Return
    \/ Unhandled
    \/ Filter
    \/ QuietExit
    \/ Render
    \/ Finish

Spec == Init /\ [][Next]_vars

(***************************************************************************)
(* The matcher on its own.                                                 *)
(***************************************************************************)
(* The pipeline does not run while the matcher is exercised.               *)
PipeIdle ==
    /\ pc = "idle"
    /\ disk = [p \in Paths |-> IOError]
    /\ todo = <<>>
    /\ quiet = FALSE
    /\ show_progress = TRUE
    /\ hash_algorithm = "md5"
    /\ match_digests = <<>>
    /\ output_format = "txt"
    /\ futures = <<>>
    /\ consumed = {}
    /\ tqdm_total = <<>>
    /\ hashes = <<>>
    /\ file_hashes = <<>>
    /\ warned = FALSE
    /\ stdout = <<>>
    /\ rendered = {}
    /\ exit_status = <<>>
    /\ roots = {}
    /\ recursive = FALSE
    /\ glob_given = TRUE

GlobInit ==
    /\ PipeIdle
    /\ wd = WdIdle
    /\ pl = PlIdle
    /\ cf = CfIdle
    /\ glob \in SeqsUpTo(PatChars, MaxPatLen)
    /\ case_insensitive \in BOOLEAN
    /\ matcher = <<>>
    /\ filename = <<>>
    /\ accepted = <<>>

(* filename_match = _Matcher(glob, glob_case_insensitive)                  *)
MatcherConstruct ==
    /\ matcher = <<>>
    /\ matcher' = <<MatcherInit(glob, case_insensitive)>>
    /\ UNCHANGED <<pipeVars, collectVars, scriptVars, glob, case_insensitive,
                   filename, accepted>>

(* filename_match(path.name)                                               *)
MatcherApply ==
    /\ matcher # <<>>
    /\ \E n \in SeqsUpTo(NameChars, MaxNameLen) :
        /\ filename' = n
        /\ accepted' = <<MatcherCall(matcher[1], n)>>
    /\ UNCHANGED <<pipeVars, collectVars, scriptVars, glob, case_insensitive,
                   matcher>>

GlobNext ==
    \/ MatcherConstruct
    \/ MatcherApply

GlobSpec == GlobInit /\ [][GlobNext]_vars

(***************************************************************************)
(* withdecorator.py: a function decorated with with_context.               *)
(***************************************************************************)
(* Calls the caller makes before the run is cut off.                       *)
MaxCalls == 3

(* The arguments bound by the decorator, @with_context(cm, 100, 200).      *)
CmArgs == {<<100, 200>>, <<1, 2>>}

(* The arguments of main's two calls, test("a") and test(12, "a").         *)
CallArgs == {<<"a">>, <<12, "a">>}

(* The duplicate finder does not run while another script is exercised.    *)
DupIdle ==
    /\ PipeIdle
    /\ glob = <<>>
    /\ case_insensitive = FALSE
    /\ matcher = <<>>
    /\ filename = <<>>
    /\ accepted = <<>>

(* test(value1, value2): prints and returns 0; any other number of         *)
(* positional arguments is a TypeError raised by the call itself.          *)
Test(got) ==
    IF Len(got) = 2 THEN <<"return", 0>> ELSE <<"raise", "TypeError">>

(* my_context_manager(x, y): a new generator-based manager, not started.   *)
MyContextManager(a) ==
    [x |-> a[1], y |-> a[2], enters |-> 0, exits |-> 0, printed |-> <<>>]

(* The manager the running call created: the last one.                     *)
Cm == wd.cms[Len(wd.cms)]

WithInit ==
    /\ DupIdle
    /\ \E a \in CmArgs :
          wd = [WdIdle EXCEPT !.pc = "caller", !.cm_args = a]
    /\ pl = PlIdle
    /\ cf = CfIdle

(* The caller calls the decorated function, f_with_context.                *)
WdCall ==
    /\ wd.pc = "caller"
    /\ wd.returns < MaxCalls
    /\ \E a \in CallArgs :
          wd' = [wd EXCEPT !.pc = "with", !.args = a, !.context = <<>>,
                           !.f_got = <<>>, !.f_out = <<>>, !.received = <<>>]
    /\ UNCHANGED <<dupVars, pl, cf>>

(* with context_manager(...): the manager is created from cm_args.         *)
WdCreate ==
    /\ wd.pc = "with"
    /\ wd' = [wd EXCEPT !.pc = "enter",
                        !.cms = Append(@, MyContextManager(wd.cm_args))]
    /\ UNCHANGED <<dupVars, pl, cf>>

(* ... as context: __enter__ runs the generator up to its yield.           *)
WdEnter ==
    /\ wd.pc = "enter"
    /\ wd' = [wd EXCEPT
                !.pc = "body",
                !.context = <<Cm.x + Cm.y>>,
                !.cms[Len(wd.cms)].enters = @ + 1,
                !.cms[Len(wd.cms)].printed =
                    Append(@, "Entering my_context_manager")]
    /\ UNCHANGED <<dupVars, pl, cf>>

(* return f(context, ...): f runs to its end on context and wrapped_args.  *)
WdBody ==
    /\ wd.pc = "body"
    /\ wd' = [wd EXCEPT !.pc = "exit",
                        !.f_got = wd.context \o wd.args,
                        !.f_out = Test(wd.context \o wd.args)]
    /\ UNCHANGED <<dupVars, pl, cf>>

(* As WdExit, but an exception of f leaves the with statement without      *)
(* __exit__ being called.                                                  *)
WdExitOnReturnOnly ==
    /\ wd.pc = "exit"
    /\ wd' = [wd EXCEPT
                !.pc = "caller",
                !.returns = @ + 1,
                !.received = wd.f_out,
                !.cms[Len(wd.cms)].exits =
                    IF wd.f_out[1] = "return" THEN @ + 1 ELSE @,
                !.cms[Len(wd.cms)].printed =
                    IF wd.f_out[1] = "return"
                    THEN Append(@, "Exiting my_context_manager")
                    ELSE @]
    /\ UNCHANGED <<dupVars, pl, cf>>

(* The with statement is left: __exit__ resumes the generator, which       *)
(* prints and ends after a return, or has the exception of f thrown in at  *)
(* its yield and lets it through; the caller then gets the value or the    *)
(* exception of f.                                                         *)
WdExit ==
    /\ wd.pc = "exit"
    /\ wd' = [wd EXCEPT
                !.pc = "caller",
                !.returns = @ + 1,
                !.received = wd.f_out,
                !.cms[Len(wd.cms)].exits = @ + 1,
                !.cms[Len(wd.cms)].printed =
                    IF wd.f_out[1] = "return"
                    THEN Append(@, "Exiting my_context_manager")
                    ELSE @]
    /\ UNCHANGED <<dupVars, pl, cf>>

WithNext ==
    \/ WdCall
    \/ WdCreate
    \/ WdEnter
    \/ WdBody
    \/ WdExit

WithSpec == WithInit /\ [][WithNext]_vars

(***************************************************************************)
(* logging/prefix-logger.py: the prefix_logging context manager.           *)
(***************************************************************************)
(* Handlers on the root logger, and open prefix_logging contexts.          *)
MaxHandlers == 2
MaxDepth == 2

(* The Formatter objects a handler may carry; NoFormatter is h.formatter   *)
(* being None.                                                             *)
Formatters == {"F1", "F2"}
NoFormatter == "None"

(* '  ' is the prefix of test_indent; a second one tells the order apart.  *)
Prefixes == {"  ", "> "}

(* The values a format attribute and the variable old_format can hold:     *)
(* the method of the Formatter class bound to formatter f, the function    *)
(* format defined by the frame-th open call of prefix_logging, or None.    *)
Orig(f) == [kind |-> "orig", of |-> f, frame |-> 0]
Closure(k) == [kind |-> "closure", of |-> "-", frame |-> k]
NoMethod == [kind |-> "none", of |-> "-", frame |-> 0]

(* What calling the method m on a record returns, as the list of the       *)
(* prefixes and the formatter whose original output follows them; format   *)
(* reads prefix and old_format from the frame that defined it when it is   *)
(* called, and calling None is a TypeError.                                *)
RECURSIVE CallFormat(_, _)
CallFormat(m, frames) ==
    IF m.kind = "orig" THEN <<m.of>>
    ELSE IF m.kind = "none" THEN <<"TypeError">>
    ELSE LET inner == CallFormat(frames[m.frame].old_format, frames)
         IN  IF inner = <<"TypeError">> THEN inner
             ELSE <<frames[m.frame].prefix>> \o inner

(* Handler.format: the handler's formatter, or the module's default one.   *)
HandlerFormat(h, fmt, frames) ==
    IF h = NoFormatter THEN <<"default">> ELSE CallFormat(fmt[h], frames)

(* The first loop of prefix_logging, from pair i on: a formatter that is   *)
(* not None gets the function format of frame k as its format attribute.   *)
RECURSIVE Patch(_, _, _, _, _)
Patch(fmt, formatters, format_methods, i, k) ==
    IF i > Len(formatters) THEN fmt
    ELSE Patch(IF formatters[i] # NoFormatter /\ format_methods[i] # NoMethod
               THEN [fmt EXCEPT ![formatters[i]] = Closure(k)]
               ELSE fmt,
               formatters, format_methods, i + 1, k)

(* The loop of the finally clause, from pair i on.                         *)
RECURSIVE Restore(_, _, _, _)
Restore(fmt, formatters, format_methods, i) ==
    IF i > Len(formatters) THEN fmt
    ELSE Restore(IF formatters[i] # NoFormatter
                 THEN [fmt EXCEPT ![formatters[i]] = format_methods[i]]
                 ELSE fmt,
                 formatters, format_methods, i + 1)

LogInit ==
    /\ DupIdle
    /\ wd = WdIdle
    /\ \E hs \in SeqsUpTo(Formatters \cup {NoFormatter}, MaxHandlers) :
          pl = [PlIdle EXCEPT !.on = TRUE, !.handlers = hs]
    /\ cf = CfIdle

(* with prefix_logging(p): the generator runs up to its yield.  The        *)
(* variable old_format is left holding the last format method of the       *)
(* list, and every function format defined in the loop reads that one      *)
(* variable.                                                               *)
PlEnter ==
    /\ pl.on
    /\ Len(pl.frames) < MaxDepth
    /\ \E p \in Prefixes :
        LET formatters == pl.handlers
            format_methods ==
                [i \in 1..Len(formatters) |->
                    IF formatters[i] # NoFormatter
                    THEN pl.fmt[formatters[i]] ELSE NoMethod]
            old_format ==
                IF format_methods = <<>> THEN NoMethod
                ELSE format_methods[Len(format_methods)]
            k == Len(pl.frames) + 1
        IN  pl' = [pl EXCEPT
                     !.frames = Append(@, [prefix |-> p,
                                           formatters |-> formatters,
                                           format_methods |-> format_methods,
                                           old_format |-> old_format]),
                     !.fmt = Patch(@, formatters, format_methods, 1, k),
                     !.out = <<>>,
                     !.left = "-"]
    /\ UNCHANGED <<dupVars, wd, cf>>

(* The innermost with block is left, by the end of its body or by an       *)
(* exception thrown in at the yield: the finally clause puts back what     *)
(* this call saved.                                                        *)
PlExit ==
    /\ pl.on
    /\ pl.frames # <<>>
    /\ \E how \in {"return", "exception"} :
        LET frame == pl.frames[Len(pl.frames)]
        IN  pl' = [pl EXCEPT
                     !.frames = SubSeq(@, 1, Len(@) - 1),
                     !.fmt = Restore(@, frame.formatters,
                                     frame.format_methods, 1),
                     !.out = <<>>,
                     !.left = how]
    /\ UNCHANGED <<dupVars, wd, cf>>

(* logger.info(msg): every handler of the root logger formats the record.  *)
PlLog ==
    /\ pl.on
    /\ pl.out = <<>>
    /\ pl.handlers # <<>>
    /\ pl' = [pl EXCEPT
                !.out = [i \in 1..Len(pl.handlers) |->
                            HandlerFormat(pl.handlers[i], pl.fmt, pl.frames)]]
    /\ UNCHANGED <<dupVars, wd, cf>>

LogNext ==
    \/ PlEnter
    \/ PlExit
    \/ PlLog

LogSpec == LogInit /\ [][LogNext]_vars

(***************************************************************************)
(* logging/concurrent-futures-logging.py: main, executor_runner and the    *)
(* pool's workers, sharing one managed queue.                              *)
(***************************************************************************)
(* The largest n and the largest pool.                                     *)
MaxN == 3
MaxWorkers == 2

(* As Args, but in ascending order.                                        *)
ArgsAscending(n) == [i \in 1..n |-> i]

(* args = list(range(n, 0, -1))                                            *)
Args(n) == [i \in 1..n |-> n - i + 1]

LogRecord(x, k) == [kind |-> "log", x |-> x, k |-> k]
Result(x) == [kind |-> "result", x |-> x, k |-> 0]

(* Indices of the futures of fs in the given state.                        *)
Futs(s) == {i \in 1..cf.n : cf.st[i] = s}

CfInit ==
    /\ DupIdle
    /\ wd = WdIdle
    /\ pl = PlIdle
    /\ \E n \in 1..MaxN, w \in 1..MaxWorkers, ac \in BOOLEAN :
          cf = [CfIdle EXCEPT !.on = TRUE, !.n = n, !.workers = w,
                              !.as_completed = ac,
                              !.st = [i \in 1..n |-> "new"],
                              !.rpc = "submit", !.mpc = "loop"]

(* fs = [ex.submit(sleep, x, queue) for x in args]: the next submission.   *)
CfSubmit ==
    /\ cf.rpc = "submit"
    /\ LET i == Len(cf.fs) + 1
       IN  cf' = [cf EXCEPT
                    !.fs = Append(@, Args(cf.n)[i]),
                    !.st[i] = "pending",
                    !.rpc = IF i = cf.n THEN "for" ELSE "submit"]
    /\ UNCHANGED <<dupVars, wd, pl>>

(* A free worker takes the oldest pending call; sleep logs its first       *)
(* record through the QueueHandler and goes to sleep.                      *)
CfStart ==
    /\ cf.on
    /\ Futs("pending") # {}
    /\ Cardinality(Futs("running")) < cf.workers
    /\ LET i == CHOOSE j \in Futs("pending") :
                    \A m \in Futs("pending") : j <= m
       IN  cf' = [cf EXCEPT
                    !.st[i] = "running",
                    !.queue = Append(@, LogRecord(cf.fs[i], 1))]
    /\ UNCHANGED <<dupVars, wd, pl>>

(* A sleeping call wakes up, logs its second record and returns millis:    *)
(* its future is finished.                                                 *)
CfFinish(i) ==
    /\ cf.on
    /\ i \in Futs("running")
    /\ cf' = [cf EXCEPT
                !.st[i] = "done",
                !.completed = Append(@, i),
                !.queue = Append(@, LogRecord(cf.fs[i], 2))]
    /\ UNCHANGED <<dupVars, wd, pl>>

(* The for statement starts: with as_completed the generator first notes   *)
(* the futures that are finished already.                                  *)
CfFor ==
    /\ cf.rpc = "for"
    /\ cf' = [cf EXCEPT
                !.rpc = "iterate",
                !.first = IF cf.as_completed THEN Futs("done") ELSE {}]
    /\ UNCHANGED <<dupVars, wd, pl>>

(* The future the loop gets next: with as_completed one of those finished  *)
(* at the start, in the order of a set, and after them the others in the   *)
(* order they finish; without it the next future of fs, once finished.     *)
NextFutures ==
    IF cf.as_completed
    THEN IF cf.first \ Range(cf.yielded) # {}
         THEN cf.first \ Range(cf.yielded)
         ELSE LET later == SelectSeq(cf.completed,
                              LAMBDA i : i \notin Range(cf.yielded))
              IN  IF later = <<>> THEN {} ELSE {later[1]}
    ELSE {i \in {Len(cf.yielded) + 1} : i <= cf.n /\ cf.st[i] = "done"}

(* queue.put(future.result())                                              *)
CfPut(i) ==
    /\ cf.rpc = "iterate"
    /\ i \in NextFutures
    /\ cf' = [cf EXCEPT
                !.yielded = Append(@, i),
                !.queue = Append(@, Result(cf.fs[i]))]
    /\ UNCHANGED <<dupVars, wd, pl>>

(* The loop is exhausted, the pool is shut down and executor_runner        *)
(* returns: the executor process ends.                                     *)
CfRunnerExit ==
    /\ cf.rpc = "iterate"
    /\ Len(cf.yielded) = cf.n
    /\ cf' = [cf EXCEPT !.rpc = "exited"]
    /\ UNCHANGED <<dupVars, wd, pl>>

(* One turn of main's loop: r = queue.get(); a LogRecord is handled, an    *)
(* int is counted.                                                         *)
CfGet ==
    /\ cf.mpc = "loop"
    /\ cf.num < cf.n
    /\ cf.queue # <<>>
    /\ LET r == Head(cf.queue)
       IN  cf' = [cf EXCEPT
                    !.queue = Tail(@),
                    !.handled = IF r.kind = "log" THEN @ + 1 ELSE @,
                    !.num = IF r.kind = "log" THEN @ ELSE @ + 1,
                    !.delivered = IF r.kind = "log" THEN @
                                  ELSE Append(@, r.x)]
    /\ UNCHANGED <<dupVars, wd, pl>>

(* while num < n is false: main goes on to join.                           *)
CfLeaveLoop ==
    /\ cf.mpc = "loop"
    /\ cf.num = cf.n
    /\ cf' = [cf EXCEPT !.mpc = "joining"]
    /\ UNCHANGED <<dupVars, wd, pl>>

(* executor_process.join() returns once the executor process has ended.    *)
CfJoin ==
    /\ cf.mpc = "joining"
    /\ cf.rpc = "exited"
    /\ cf' = [cf EXCEPT !.mpc = "joined"]
    /\ UNCHANGED <<dupVars, wd, pl>>

CfNext ==
    \/ CfSubmit
    \/ CfStart
    \/ \E i \in 1..MaxN : CfFinish(i)
    \/ CfFor
    \/ \E i \in 1..MaxN : CfPut(i)
    \/ CfRunnerExit
    \/ CfGet
    \/ CfLeaveLoop
    \/ CfJoin

CfSpec == CfInit /\ [][CfNext]_vars

(***************************************************************************)
(* The same script from the start of executor_runner, for any worker count *)
(* the command line accepts, with every process scheduled fairly.          *)
(***************************************************************************)
CfLiveInit ==
    /\ DupIdle
    /\ wd = WdIdle
    /\ pl = PlIdle
    /\ \E n \in 1..MaxN, w \in 0..MaxWorkers, ac \in BOOLEAN :
          cf = [CfIdle EXCEPT !.on = TRUE, !.n = n, !.workers = w,
                              !.as_completed = ac,
                              !.st = [i \in 1..n |-> "new"],
                              !.rpc = "pool", !.mpc = "loop"]

(* with futures.ProcessPoolExecutor(workers) as ex: the pool is created.   *)
CfPool ==
    /\ cf.rpc = "pool"
    /\ cf.workers >= 1
    /\ cf' = [cf EXCEPT !.rpc = "submit"]
    /\ UNCHANGED <<dupVars, wd, pl>>

(* ProcessPoolExecutor raises ValueError for a worker count below 1:       *)
(* executor_runner ends with the exception and the executor process with   *)
(* it, nothing having been submitted or put on the queue.                  *)
CfPoolError ==
    /\ cf.rpc = "pool"
    /\ cf.workers < 1
    /\ cf' = [cf EXCEPT !.rpc = "crashed"]
    /\ UNCHANGED <<dupVars, wd, pl>>

CfLiveNext ==
    \/ CfPool
    \/ CfPoolError
    \/ CfNext

(* The executor process, the workers and the main process each go on       *)
(* whenever they can.                                                      *)
CfFairness ==
    /\ WF_vars(CfPool \/ CfPoolError \/ CfSubmit \/ CfFor
                  \/ (\E i \in 1..MaxN : CfPut(i)) \/ CfRunnerExit)
    /\ WF_vars(CfStart \/ \E i \in 1..MaxN : CfFinish(i))
    /\ WF_vars(CfGet \/ CfLeaveLoop \/ CfJoin)

CfLiveSpec == CfLiveInit /\ [][CfLiveNext]_vars /\ CfFairness

(***************************************************************************)
(* Properties of the aggregation, stated where _file_hashes has returned   *)
(* its mapping to main and main has not yet filtered it.                   *)
(***************************************************************************)
Returned == pc = "filter"

(* How often x occurs in the sequence s.                                   *)
Occurrences(s, x) == Cardinality({i \in 1..Len(s) : s[i] = x})

(* The futures submitted for path p whose result is digest d.              *)
Submitted(p, d) ==
    {i \in 1..Len(futures) : futures[i].path = p /\ futures[i].result = d}

(* The number of path entries over all groups of the mapping d.            *)
RECURSIVE TotalEntries(_)
TotalEntries(d) ==
    IF d = <<>> THEN 0 ELSE Len(Head(d).paths) + TotalEntries(Tail(d))

(* Is the sequence of strings ascending.                                   *)
IsSorted(s) == \A i, j \in 1..Len(s) : i < j => ~StrLess(s[j], s[i])

(* C1: when _file_hashes has returned, two candidate paths are listed in   *)
(* the same group if and only if their computed digests are equal.         *)
GroupedIffSameDigest ==
    Returned =>
        \A i, j \in 1..Len(futures) :
            (\E k \in 1..Len(file_hashes) :
                /\ futures[i].path \in Range(file_hashes[k].paths)
                /\ futures[j].path \in Range(file_hashes[k].paths))
            <=> futures[i].result = futures[j].result

(* Two groups were returned, one of them with two paths, and the first     *)
(* key is not the digest of the first submitted path.                      *)
GroupedIffSameDigestWitness ==
    /\ Returned
    /\ Len(file_hashes) = 2
    /\ \E k \in 1..2 : Len(file_hashes[k].paths) = 2
    /\ file_hashes[1].digest # futures[1].result

(* C2: when _file_hashes has returned, the groups hold as many path        *)
(* entries as candidates were submitted, and every path is listed once per *)
(* submission under the digest computed for it and under no other digest.  *)
NoResultDroppedOrDuplicated ==
    Returned =>
        /\ \A k1, k2 \in 1..Len(file_hashes) :
              file_hashes[k1].digest = file_hashes[k2].digest => k1 = k2
        /\ \A p \in Paths : \A d \in Digests :
              /\ Submitted(p, d) # {} => d \in DictKeys(file_hashes)
              /\ \A k \in 1..Len(file_hashes) :
                    file_hashes[k].digest = d =>
                        Occurrences(file_hashes[k].paths, p)
                            = Cardinality(Submitted(p, d))
        /\ TotalEntries(file_hashes) = Len(futures)

(* Three candidates, one path submitted twice, came back in two groups.    *)
NoResultDroppedOrDuplicatedWitness ==
    /\ Returned
    /\ Len(futures) >= 3
    /\ \E i, j \in 1..Len(futures) : i # j /\ futures[i].path = futures[j].path
    /\ Len(file_hashes) = 2

(* x repeated n times.                                                     *)
Repeat(x, n) == [i \in 1..n |-> x]

(* The least string of the non-empty set S.                                *)
Least(S) == CHOOSE x \in S : \A y \in S : ~StrLess(y, x)

(* The paths submitted with digest d, each as often as it was submitted,   *)
(* in ascending order: built from the submissions alone, smallest first.   *)
RECURSIVE AscendingPaths(_, _)
AscendingPaths(S, d) ==
    IF S = {} THEN <<>>
    ELSE Repeat(Least(S), Cardinality(Submitted(Least(S), d)))
         \o AscendingPaths(S \ {Least(S)}, d)

(* C3: when all results are consumed, every group's path list is ascending *)
(* in the order of the path strings, and it is the list determined by the  *)
(* submitted paths and their digests alone, whatever the completion order. *)
GroupsSortedWhateverOrder ==
    Returned =>
        \A k \in 1..Len(file_hashes) :
            /\ IsSorted(file_hashes[k].paths)
            /\ file_hashes[k].paths
                   = AscendingPaths(Paths, file_hashes[k].digest)

(* A group whose paths arrived out of order was returned.                  *)
GroupsSortedWhateverOrderWitness ==
    /\ Returned
    /\ \E k \in 1..Len(hashes) :
          /\ Len(hashes[k].paths) >= 2
          /\ ~IsSorted(hashes[k].paths)
          /\ file_hashes[k].paths # hashes[k].paths

(***************************************************************************)
(* Properties of filtering, rendering and the exit code.                   *)
(***************************************************************************)
(* The mapping built when the results are consumed in submission order.    *)
RECURSIVE AggregateInOrder(_)
AggregateInOrder(fs) ==
    IF fs = <<>> THEN <<>>
    ELSE SetDefaultAppend(AggregateInOrder(SubSeq(fs, 1, Len(fs) - 1)),
                          fs[Len(fs)].result, fs[Len(fs)].path)

(* C4: the json and csv output of a run is the output of the run over the  *)
(* same files and options whose results complete in submission order, so   *)
(* any two runs print the same bytes whatever the completion order.        *)
OutputSameWhateverOrder ==
    (pc = "exited" /\ ~quiet /\ output_format \in {"json", "csv"}) =>
        stdout = RenderOutput(output_format,
                     FilterGroups(SortedGroups(AggregateInOrder(futures)),
                                  match_digests),
                     match_digests, hash_algorithm).out

(* The mapping _file_hashes returned to main.                              *)
ReturnedGroups == SortedGroups(hashes)

Filtered == pc \in {"report", "rendered", "exited"}

(* C5: without --match the retained mapping is exactly the returned groups *)
(* with more than one path, their lists unchanged, and no group of one     *)
(* path is retained or written to the output.                              *)
DuplicatesModeRetainsLargeGroups ==
    (Filtered /\ match_digests = <<>>) =>
        /\ \A k \in 1..Len(file_hashes) :
              /\ Len(file_hashes[k].paths) > 1
              /\ file_hashes[k] \in Range(ReturnedGroups)
        /\ \A k \in 1..Len(ReturnedGroups) :
              Len(ReturnedGroups[k].paths) > 1
                  => ReturnedGroups[k] \in Range(file_hashes)
        /\ Len(file_hashes) <= Len(ReturnedGroups)
        /\ "json.dumps" \in rendered =>
              \A r \in 1..Len(stdout) : Len(stdout[r][2]) > 1
        /\ "_echo_duplicate_files" \in rendered =>
              \A r \in 1..Len(stdout) : r % 2 = 1 => stdout[r][1] > 1
        /\ "_write_csv" \in rendered =>
              \A r \in 2..Len(stdout) :
                  \E q \in 2..Len(stdout) :
                      q # r /\ stdout[q][1] = stdout[r][1]

(* A group of two paths was retained and a group of one path was not.      *)
DuplicatesModeWitness ==
    /\ Filtered
    /\ match_digests = <<>>
    /\ Len(file_hashes) = 1
    /\ Len(ReturnedGroups) = 2
    /\ \E k \in 1..2 : Len(ReturnedGroups[k].paths) = 1

(* C6: with --match the retained mapping is exactly the returned groups    *)
(* whose digest is one of the given digests, whatever their size.          *)
MatchModeRetainsGivenDigests ==
    (Filtered /\ match_digests # <<>>) =>
        /\ \A k \in 1..Len(file_hashes) :
              /\ \E m \in 1..Len(match_digests) :
                    match_digests[m] = file_hashes[k].digest
              /\ file_hashes[k] \in Range(ReturnedGroups)
        /\ \A k \in 1..Len(ReturnedGroups) :
              (\E m \in 1..Len(match_digests) :
                    match_digests[m] = ReturnedGroups[k].digest)
                  => ReturnedGroups[k] \in Range(file_hashes)
        /\ Len(file_hashes) <= Len(ReturnedGroups)

(* A group of one path was retained and a group of two paths was not.      *)
MatchModeWitness ==
    /\ Filtered
    /\ match_digests # <<>>
    /\ Len(file_hashes) = 1
    /\ Len(file_hashes[1].paths) = 1
    /\ \E k \in 1..Len(ReturnedGroups) :
          /\ Len(ReturnedGroups[k].paths) = 2
          /\ ReturnedGroups[k] \notin Range(file_hashes)

(* C7: in quiet mode nothing is rendered and the progress bar is off, and  *)
(* the process exits with 0 if the retained mapping is non-empty and with  *)
(* 1 otherwise, with and without --match.                                  *)
QuietRendersNothing ==
    quiet =>
        /\ rendered = {}
        /\ stdout = <<>>
        /\ ~show_progress
        /\ tqdm_total = <<>>
        /\ pc # "rendered"
        /\ pc = "exited" =>
              /\ file_hashes # <<>> => exit_status = <<0>>
              /\ file_hashes = <<>> => exit_status = <<1>>

(* A quiet run with --match over several files found a match and exited 0. *)
QuietRendersNothingWitness ==
    /\ quiet
    /\ pc = "exited"
    /\ match_digests # <<>>
    /\ Len(futures) >= 2
    /\ file_hashes # <<>>
    /\ exit_status = <<0>>

(* What each format writes for the empty mapping.                          *)
EmptyOutput(format) ==
    IF format = "csv" THEN <<<<hash_algorithm, "path">>>> ELSE <<>>

(* C8: a run that is not quiet exits with 1 exactly when --match was given *)
(* and the retained mapping is empty, and then the output for the empty    *)
(* mapping has been rendered before the exit; in every other case,         *)
(* duplicates mode without duplicates included, it exits with 0.           *)
ExitOneOnlyForEmptyMatch ==
    (pc = "exited" /\ ~quiet) =>
        /\ rendered # {}
        /\ exit_status \in {<<0>>, <<1>>}
        /\ exit_status = <<1>>
              <=> (match_digests # <<>> /\ file_hashes = <<>>)
        /\ exit_status = <<1>> => stdout = EmptyOutput(output_format)

(* No file had the digest looked for: csv header rendered, then exit 1.    *)
ExitOneOnlyForEmptyMatchWitness ==
    /\ pc = "exited"
    /\ ~quiet
    /\ futures # <<>>
    /\ match_digests # <<>>
    /\ output_format = "csv"
    /\ "_write_csv" \in rendered
    /\ exit_status = <<1>>

(***************************************************************************)
(* Properties of the glob matcher, checked under GlobSpec.                 *)
(***************************************************************************)
Called == accepted # <<>>

Negated(g) == g # <<>> /\ Head(g) = "!"

(* C9 as stated: for every pattern p, the matcher built from "!" + p       *)
(* accepts a name if and only if the matcher built from p rejects it.      *)
NegationLawAnyPattern ==
    (Called /\ Negated(glob)) =>
        (accepted[1]
             <=> ~MatcherCall(MatcherInit(Tail(glob), case_insensitive),
                              filename))

(* C9, amended: for every pattern p that does not itself begin with "!",   *)
(* in both case modes, the matcher built from "!" + p accepts a name if    *)
(* and only if the matcher built from p rejects it.                        *)
NegationLaw ==
    (Called /\ Negated(glob) /\ ~Negated(Tail(glob))) =>
        (accepted[1]
             <=> ~MatcherCall(MatcherInit(Tail(glob), case_insensitive),
                              filename))

(* The case-insensitive matcher of "!a*" was called and accepted a name.   *)
NegationLawWitness ==
    /\ Called
    /\ case_insensitive
    /\ glob = <<"!", "a", "*">>
    /\ filename # <<>>
    /\ accepted = <<TRUE>>

(* C10: the case-insensitive matcher accepts a name exactly when the       *)
(* case-sensitive matcher of the lowercased pattern accepts the lowercased *)
(* name.                                                                   *)
CaseInsensitiveLowersBoth ==
    (Called /\ case_insensitive) =>
        (accepted[1]
             <=> MatcherCall(MatcherInit(Lower(glob), FALSE), Lower(filename)))

(***************************************************************************)
(* Properties of the collector and of the submission, checked under Spec.  *)
(***************************************************************************)
FuturePaths == [i \in 1..Len(futures) |-> futures[i].path]

(* The candidates of the run: those submitted and those still to come.     *)
Candidates == FuturePaths \o todo

(* Is file f somewhere beneath directory r.                                *)
Beneath(f, r) ==
    /\ Len(f) > Len(r) + 1
    /\ SubSeq(f, 1, Len(r)) = r
    /\ f[Len(r) + 1] = 47

PassesFilter(f) ==
    FilenameMatch(glob_given, glob, case_insensitive, Name(f))

(* C11: the candidates are exactly the file roots whose name passes the    *)
(* filter and, only with --recursive, the files anywhere beneath a         *)
(* directory root whose name passes the filter; without --recursive a      *)
(* directory root contributes nothing and raises nothing, and a quiet run  *)
(* over directories only exits with 1.                                     *)
CollectorYieldsExactly ==
    pc # "idle" =>
        /\ Range(Candidates) =
              {f \in Paths :
                  /\ PassesFilter(f)
                  /\ \/ f \in roots
                     \/ /\ recursive
                        /\ \E r \in roots \cap Dirs : Beneath(f, r)}
        /\ (~recursive /\ roots \subseteq Dirs) =>
              /\ Candidates = <<>>
              /\ pc \notin {"raised", "crashed"}
              /\ (pc = "exited" /\ quiet) => exit_status = <<1>>

(* A recursive run over directory d with a glob submitted the two files    *)
(* named a beneath it, one of them in the subdirectory.                    *)
CollectorYieldsExactlyWitness ==
    /\ pc = "aggregate"
    /\ recursive
    /\ glob_given
    /\ roots = {<<100>>}
    /\ Range(FuturePaths) = {<<100, 47, 97>>, <<100, 47, 101, 47, 97>>}

(* C12: no file is yielded more than once, whatever the roots, so no file  *)
(* is hashed twice or listed twice in a group.                             *)
NoFileYieldedTwice ==
    /\ \A i, j \in 1..Len(Candidates) :
          Candidates[i] = Candidates[j] => i = j
    /\ \A k \in 1..Len(file_hashes) :
          \A i, j \in 1..Len(file_hashes[k].paths) :
              file_hashes[k].paths[i] = file_hashes[k].paths[j] => i = j

Failed == pc \in {"raised", "crashed"}

(* A failing candidate aborts the batch when its result is consumed:       *)
(* nothing is returned, filtered or rendered, and no report omits it.      *)
FailureAborts ==
    /\ (\E i \in consumed : futures[i].result = IOError) => Failed
    /\ Failed =>
          /\ \E i \in consumed : futures[i].result = IOError
          /\ file_hashes = <<>>
          /\ match_digests = <<>>
          /\ rendered = {}
          /\ stdout = <<>>
    /\ (Returned \/ Filtered) =>
          \A i \in 1..Len(futures) : ComputeHash(futures[i].path) # IOError

(* C13 as stated: a failing candidate aborts the batch when its result is  *)
(* consumed, nothing is returned, filtered or rendered, the run never ends *)
(* with exit code 0 or 1, and no report omits the failed file.             *)
FailureAbortsNeverZeroOrOne ==
    /\ FailureAborts
    /\ Failed => exit_status \notin {<<0>>, <<1>>}

(* The collector yielded nothing and main is past _file_hashes.            *)
NothingCollected == Candidates = <<>> /\ pc \notin {"idle", "main", "submit"}

(* C14: when the collector yields nothing, nothing is submitted, a warning *)
(* is written, the empty mapping is returned without raising, and the run  *)
(* goes on to filter and report: quiet exits 1, duplicates mode exits 0.   *)
EmptyCollectionWarns ==
    /\ warned => NothingCollected
    /\ NothingCollected =>
          /\ warned
          /\ futures = <<>>
          /\ hashes = <<>>
          /\ file_hashes = <<>>
          /\ ~Failed
          /\ pc = "exited" =>
                /\ quiet => (exit_status = <<1>> /\ rendered = {})
                /\ (~quiet /\ match_digests = <<>>) =>
                      (exit_status = <<0>> /\ rendered # {})

(* The glob rejected every file; the csv header was rendered, then exit 0. *)
EmptyCollectionWarnsWitness ==
    /\ NothingCollected
    /\ glob_given
    /\ roots \cap Paths # {}
    /\ pc = "exited"
    /\ ~quiet
    /\ match_digests = <<>>
    /\ "_write_csv" \in rendered
    /\ exit_status = <<0>>

(* _file_hashes has built its list of futures and consumed nothing yet.    *)
SubmissionOver ==
    \/ pc = "aggregate" /\ consumed = {}
    \/ pc = "filter" /\ futures = <<>>

(* C18: every candidate of the collector is submitted, once, before the    *)
(* first result is consumed; nothing is submitted once aggregation has     *)
(* begun; filtering starts only when every submitted unit has completed    *)
(* and been aggregated.                                                    *)
AllSubmittedUpFront ==
    /\ [](pc \notin {"idle", "main", "submit"} => todo = <<>>)
    /\ [](SubmissionOver =>
            FuturePaths \in CollectSeqs(roots, recursive, glob_given, glob,
                                        case_insensitive))
    /\ [](pc \in {"main", "submit"} => consumed = {})
    /\ []((Returned \/ Filtered) =>
            /\ consumed = 1..Len(futures)
            /\ \A i \in 1..Len(futures) : futures[i].state = "done"
            /\ TotalEntries(ReturnedGroups) = Len(futures))
    /\ [][pc \notin {"main", "submit"} => FuturePaths' = FuturePaths]_vars

(* Three units were submitted, completed, aggregated and then filtered.    *)
AllSubmittedUpFrontWitness ==
    /\ pc = "report"
    /\ Len(futures) = 3
    /\ Len(ReturnedGroups) = 2

NonEmptyGroups(d) == \A k \in 1..Len(d) : d[k].paths # <<>>

(* Is the dict e the dict d after one path was appended to one list, or    *)
(* after one key was added with a list of one path.                        *)
OnePathAdded(d, e) ==
    \/ /\ Len(e) = Len(d) + 1
       /\ SubSeq(e, 1, Len(d)) = d
       /\ Len(e[Len(e)].paths) = 1
       /\ e[Len(e)].digest \notin DictKeys(d)
    \/ /\ Len(e) = Len(d)
       /\ \E k \in 1..Len(d) :
             /\ e[k].digest = d[k].digest
             /\ Len(e[k].paths) = Len(d[k].paths) + 1
             /\ SubSeq(e[k].paths, 1, Len(d[k].paths)) = d[k].paths
             /\ \A m \in 1..Len(d) : m # k => e[m] = d[m]

(* C19: no key of the mapping maps to an empty list, during aggregation,   *)
(* on return and after filtering; a key appears together with its first    *)
(* path and lists only grow by appending; only the consuming loop changes  *)
(* the mapping, a finishing worker never does.                             *)
GroupsNeverEmpty ==
    /\ [](NonEmptyGroups(hashes) /\ NonEmptyGroups(file_hashes))
    /\ [][hashes' # hashes =>
            /\ pc = "aggregate"
            /\ consumed' # consumed
            /\ futures' = futures
            /\ OnePathAdded(hashes, hashes')]_vars

(* Mid-aggregation: two keys, one with two paths.                          *)
GroupsNeverEmptyWitness ==
    /\ pc = "aggregate"
    /\ Len(hashes) = 2
    /\ \E k \in 1..2 : Len(hashes[k].paths) = 2

(* The value the with statement binds for the decorator's arguments.       *)
Entered == <<wd.cm_args[1] + wd.cm_args[2]>>

(* C15: a call of the decorated function is the call of f inside a with    *)
(* statement: each call creates its own manager, enters it before f        *)
(* starts, passes the entered value and then the caller's arguments to f,  *)
(* exits the manager exactly once after f returned or raised and before    *)
(* the caller goes on, and hands f's return value to the caller.           *)
CalledInsideWith ==
    wd.pc # "off" =>
        /\ Len(wd.cms) =
              wd.returns + (IF wd.pc \in {"enter", "body", "exit"} THEN 1 ELSE 0)
        /\ \A k \in 1..wd.returns :
              wd.cms[k].enters = 1 /\ wd.cms[k].exits = 1
        /\ wd.pc = "enter" => (Cm.enters = 0 /\ Cm.exits = 0 /\ wd.f_got = <<>>)
        /\ wd.pc = "body" =>
              /\ Cm.enters = 1 /\ Cm.exits = 0
              /\ wd.context = Entered
              /\ wd.f_got = <<>>
        /\ wd.pc = "exit" =>
              /\ Cm.enters = 1 /\ Cm.exits = 0
              /\ wd.f_got = Entered \o wd.args
              /\ wd.f_out = Test(wd.f_got)
              /\ wd.received = <<>>
        /\ (wd.pc = "caller" /\ wd.returns > 0) =>
              /\ wd.f_got = Entered \o wd.args
              /\ wd.received = Test(wd.f_got)

(* The first call returned 0 to the caller, the second raised TypeError    *)
(* in f and the caller got it after the second manager was exited.         *)
CalledInsideWithWitness ==
    /\ wd.pc = "caller"
    /\ wd.returns = 2
    /\ wd.received = <<"raise", "TypeError">>
    /\ Len(wd.cms[1].printed) = 2
    /\ wd.cms[2].exits = 1

(* The prefixes of the open contexts, innermost first.                     *)
RECURSIVE OpenPrefixes(_)
OpenPrefixes(frames) ==
    IF frames = <<>> THEN <<>>
    ELSE <<frames[Len(frames)].prefix>>
            \o OpenPrefixes(SubSeq(frames, 1, Len(frames) - 1))

(* A record has just been logged at the current nesting.                   *)
Logged == pl.on /\ pl.out # <<>>

(* C16: a record logged inside the open contexts p1..pk is formatted as    *)
(* pk ... p1 followed by the original format of the handler's formatter,   *)
(* and after properly nested enters and exits, by return or by exception,  *)
(* the formatting in effect is that of the contexts still open: with none  *)
(* open, every formatter formats as before the first enter.                *)
PrefixesNestAndRestore ==
    /\ Logged =>
          \A i \in 1..Len(pl.handlers) :
              pl.handlers[i] # NoFormatter =>
                  pl.out[i] = OpenPrefixes(pl.frames) \o <<pl.handlers[i]>>
    /\ (pl.on /\ pl.frames = <<>>) =>
          \A f \in Formatters : pl.fmt[f] = Orig(f)
    /\ (pl.on /\ pl.frames # <<>>) =>
          \A i \in 1..Len(pl.handlers) :
              pl.handlers[i] # NoFormatter =>
                  pl.fmt[pl.handlers[i]] = Closure(Len(pl.frames))

(* C20: with several handlers, inside one prefix_logging(p) each handler   *)
(* formats a record as p followed by the output of its own original format *)
(* method, a handler without formatter is left untouched, and formatting   *)
(* the record does not raise.                                              *)
OwnFormatInsidePrefix ==
    (Logged /\ Len(pl.frames) = 1) =>
        \A i \in 1..Len(pl.handlers) :
            /\ pl.out[i] # <<"TypeError">>
            /\ pl.handlers[i] = NoFormatter => pl.out[i] = <<"default">>
            /\ pl.handlers[i] # NoFormatter =>
                  pl.out[i] = <<pl.frames[1].prefix, pl.handlers[i]>>

Later(seq) == SelectSeq(seq, LAMBDA i : i \notin cf.first)

Puts(x) == Cardinality({i \in 1..Len(cf.yielded) : cf.fs[cf.yielded[i]] = x})

(* The results in the queue, in order.                                     *)
QueuedResults == SelectSeq(cf.queue, LAMBDA r : r.kind = "result")

(* C21: main terminates: every result is put on the queue at most once     *)
(* and, in the end, exactly once; log records are never counted as         *)
(* results; main counts exactly n results, leaves the loop without waiting *)
(* on the queue again, and join returns because the executor process       *)
(* finishes.                                                               *)
MainTerminates ==
    /\ [](cf.on =>
            /\ \A x \in 1..cf.n : Puts(x) <= 1
            /\ cf.num = Len(cf.delivered)
            /\ Len(cf.delivered) + Len(QueuedResults) = Len(cf.yielded)
            /\ cf.num <= cf.n
            /\ cf.num = cf.n => cf.queue = <<>>
            /\ cf.mpc \in {"joining", "joined"} => cf.num = cf.n)
    /\ <>(/\ cf.mpc = "joined"
          /\ cf.rpc = "exited"
          /\ cf.num = cf.n
          /\ \A x \in 1..cf.n : Puts(x) = 1)
====
